---------------------------- MODULE Spec2Model ----------------------------
(***************************************************************************)
(* A model of the node-sqlite dialect of knex and of the query             *)
(* executioner that drives it:                                             *)
(*   lib/execution/internal/query-executioner.js  (formatQuery,            *)
(*       enrichQueryObject, executeQuery)                                  *)
(*   lib/dialects/node-sqlite/index.js            (Client_NodeSQLite)      *)
(*                                                                         *)
(* JavaScript values are tagged records [t |-> <typeof>, v |-> <payload>]. *)
(* Text is a sequence of one-character strings, so that trim, toLowerCase, *)
(* startsWith, includes, replace and the placeholder scan of formatQuery   *)
(* are computed character by character.                                    *)
(***************************************************************************)
EXTENDS Integers, Sequences, FiniteSets, TLC

(***************************************************************************)
(* Bounds of the model.                                                    *)
(***************************************************************************)
\* the longest rowset a statement of the modelled database yields
MaxRows == 2

(***************************************************************************)
(* JavaScript values.                                                      *)
(***************************************************************************)
Undefined == [t |-> "undefined"]
Null == [t |-> "null"]
Num(n) == [t |-> "number", v |-> n]
Bool(b) == [t |-> "boolean", v |-> b]
Str(s) == [t |-> "string", v |-> s]
DateOf(ms) == [t |-> "date", v |-> ms]
Arr(s) == [t |-> "array", v |-> s]
Obj(f) == [t |-> "object", v |-> f]
Fn(name) == [t |-> "function", v |-> name]
\* the value of an expression that threw a TypeError instead of returning
TypeError == [t |-> "TypeError"]
\* the object literal {}
EmptyObj == Obj(<<>>)

\* ToBoolean: what `if (x)`, `!x`, `x || y`, `x && y` and `x ? a : b` test
Truthy(x) ==
  CASE x.t = "undefined" -> FALSE
    [] x.t = "null" -> FALSE
    [] x.t = "boolean" -> x.v
    [] x.t = "number" -> x.v # 0
    [] x.t = "string" -> x.v # <<>>
    [] OTHER -> TRUE

\* x || y
Or(x, y) == IF Truthy(x) THEN x ELSE y

\* o[k] for an object o: undefined when o has no property k
Get(o, k) == IF o.t = "object" /\ k \in DOMAIN o.v THEN o.v[k] ELSE Undefined

\* Array.isArray(x)
IsArray(x) == x.t = "array"

(***************************************************************************)
(* Text.                                                                   *)
(***************************************************************************)
UpperCase == <<"A", "B", "C", "D", "E", "F", "G", "H", "I", "J", "K", "L", "M",
               "N", "O", "P", "Q", "R", "S", "T", "U", "V", "W", "X", "Y", "Z">>
LowerCase == <<"a", "b", "c", "d", "e", "f", "g", "h", "i", "j", "k", "l", "m",
               "n", "o", "p", "q", "r", "s", "t", "u", "v", "w", "x", "y", "z">>
WhiteSpace == {" ", "\t", "\n", "\r"}
DecimalDigit == <<"0", "1", "2", "3", "4", "5", "6", "7", "8", "9">>

LowerChar(c) ==
  IF \E i \in DOMAIN UpperCase : UpperCase[i] = c
    THEN LowerCase[CHOOSE i \in DOMAIN UpperCase : UpperCase[i] = c]
    ELSE c

\* String.prototype.toLowerCase
ToLowerCase(s) == [i \in DOMAIN s |-> LowerChar(s[i])]

RECURSIVE TrimStart(_)
TrimStart(s) ==
  IF s # <<>> /\ Head(s) \in WhiteSpace THEN TrimStart(Tail(s)) ELSE s

RECURSIVE TrimEnd(_)
TrimEnd(s) ==
  IF s # <<>> /\ s[Len(s)] \in WhiteSpace
    THEN TrimEnd(SubSeq(s, 1, Len(s) - 1))
    ELSE s

\* String.prototype.trim
Trim(s) == TrimEnd(TrimStart(s))

\* String.prototype.startsWith
StartsWith(s, prefix) ==
  Len(s) >= Len(prefix) /\ SubSeq(s, 1, Len(prefix)) = prefix

\* String.prototype.indexOf, 1-based; 0 when sub does not occur in s
IndexOf(s, sub) ==
  LET at == {i \in 1..(Len(s) - Len(sub) + 1) : SubSeq(s, i, i + Len(sub) - 1) = sub}
  IN IF at = {} THEN 0 ELSE CHOOSE i \in at : \A j \in at : i <= j

\* String.prototype.includes
Includes(s, sub) == IndexOf(s, sub) # 0

\* String.prototype.replace with a string pattern: the first occurrence only
Replace(s, sub, rep) ==
  LET i == IndexOf(s, sub)
  IN IF i = 0
       THEN s
       ELSE SubSeq(s, 1, i - 1) \o rep \o SubSeq(s, i + Len(sub), Len(s))

\* the decimal text of a natural number
RECURSIVE Decimal(_)
Decimal(n) ==
  IF n < 10 THEN <<DecimalDigit[n + 1]>> ELSE Decimal(n \div 10) \o <<DecimalDigit[(n % 10) + 1]>>

\* the string literals of the two source files
TxtSelect == <<"s", "e", "l", "e", "c", "t">>
TxtPragma == <<"p", "r", "a", "g", "m", "a">>
TxtSeparator == <<" ", "-", " ">>
TxtQueryIsEmpty ==
  <<"T", "h", "e", " ", "q", "u", "e", "r", "y", " ", "i", "s", " ", "e", "m", "p", "t", "y">>
TxtNoConnection ==
  <<"N", "o", " ", "c", "o", "n", "n", "e", "c", "t", "i", "o", "n", " ",
    "p", "r", "o", "v", "i", "d", "e", "d">>
TxtConstraintFailed ==
  <<"c", "o", "n", "s", "t", "r", "a", "i", "n", "t", " ", "f", "a", "i", "l", "e", "d">>
TxtSqliteConstraintColon ==
  <<"S", "Q", "L", "I", "T", "E", "_", "C", "O", "N", "S", "T", "R", "A", "I", "N", "T", ":">>
TxtErrSqliteError ==
  <<"E", "R", "R", "_", "S", "Q", "L", "I", "T", "E", "_", "E", "R", "R", "O", "R">>
TxtSqliteError == <<"S", "Q", "L", "I", "T", "E", "_", "E", "R", "R", "O", "R">>

(***************************************************************************)
(* query-executioner.js: formatQuery.                                      *)
(***************************************************************************)
\* String.prototype.replace(/'/g, "''")
RECURSIVE DoubleQuotes(_)
DoubleQuotes(s) ==
  IF s = <<>> THEN <<>>
  ELSE (IF Head(s) = "'" THEN <<"'", "'">> ELSE <<Head(s)>>) \o DoubleQuotes(Tail(s))

\* client._escapeBinding: the literal text of a value
_escapeBinding(value) ==
  CASE value.t \in {"undefined", "null"} -> <<"N", "U", "L", "L">>
    [] value.t = "boolean" ->
         IF value.v THEN <<"t", "r", "u", "e">> ELSE <<"f", "a", "l", "s", "e">>
    [] value.t = "number" -> Decimal(value.v)
    [] value.t = "date" -> <<"'">> \o Decimal(value.v) \o <<"'">>
    [] OTHER -> <<"'">> \o DoubleQuotes(value.v) \o <<"'">>

\* sql.replace(/\\?\?/g, ...) from position i on, with `index` bindings consumed
RECURSIVE FormatScan(_, _, _, _)
FormatScan(sql, bindings, i, index) ==
  IF i > Len(sql) THEN <<>>
  ELSE IF sql[i] = "\\" /\ i < Len(sql) /\ sql[i + 1] = "?"
    THEN <<"?">> \o FormatScan(sql, bindings, i + 2, index)
  ELSE IF sql[i] = "?"
    THEN IF index = Len(bindings)
           THEN <<"?">> \o FormatScan(sql, bindings, i + 1, index)
           ELSE _escapeBinding(bindings[index + 1])
                  \o FormatScan(sql, bindings, i + 1, index + 1)
  ELSE <<sql[i]>> \o FormatScan(sql, bindings, i + 1, index)

\* a scan that starts with the first binding already consumed
formatQuery_SkipsFirstBinding(sql, bindings) ==
  IF ~Truthy(sql) \/ sql.t # "string"
    THEN (IF sql.t = "string" THEN sql.v ELSE <<>>)
    ELSE LET list == CASE bindings.t \in {"undefined", "null"} -> <<>>
                       [] bindings.t = "array" -> bindings.v
                       [] OTHER -> <<bindings>>
         IN FormatScan(sql.v, list, 1, IF list = <<>> THEN 0 ELSE 1)

\* formatQuery(sql, bindings, timeZone, client): the text it returns
formatQuery(sql, bindings) ==
  IF ~Truthy(sql) \/ sql.t # "string"
    THEN (IF sql.t = "string" THEN sql.v ELSE <<>>)
    ELSE LET list == CASE bindings.t \in {"undefined", "null"} -> <<>>
                       [] bindings.t = "array" -> bindings.v
                       [] OTHER -> <<bindings>>
         IN FormatScan(sql.v, list, 1, 0)

(***************************************************************************)
(* node-sqlite/index.js: the helpers of _query.                            *)
(***************************************************************************)
\* a conversion that hands booleans to the driver as they are
FormatBinding_KeepsBooleans(binding) ==
  CASE binding.t = "date" -> Num(binding.v)
    [] OTHER -> binding

\* the arrow function of _formatBindings, on one binding
FormatBinding(binding) ==
  CASE binding.t = "date" -> Num(binding.v)
    [] binding.t = "boolean" -> Num(IF binding.v THEN 1 ELSE 0)
    [] OTHER -> binding

\* _formatBindings(bindings, sql, method): the list handed to the statement
_formatBindings(bindings) ==
  IF ~Truthy(bindings)
    THEN <<>>
    ELSE [i \in DOMAIN bindings.v |-> FormatBinding(bindings.v[i])]

\* the arrow function of _postProcessResponse: a fresh object with the
\* same entries for an object row, the row itself otherwise
PostProcessRow(row) ==
  IF Truthy(row) /\ row.t = "object"
    THEN Obj([k \in DOMAIN row.v |-> row.v[k]])
    ELSE row

\* _postProcessResponse(response)
_postProcessResponse(response) ==
  IF IsArray(response)
    THEN Arr([i \in DOMAIN response.v |-> PostProcessRow(response.v[i])])
    ELSE response

(***************************************************************************)
(* The driver (node:sqlite).  A prepared statement is described by what    *)
(* the database does when it is executed: `rows` is the rowset the         *)
(* statement yields, lastInsertRowid and changes are its counters, and     *)
(* throwsAt tells whether prepare or the execution throws `err`.           *)
(*   statement.get  returns the first row, or undefined when there is none *)
(*   statement.all  returns all the rows                                   *)
(*   statement.run  returns {lastInsertRowid, changes} and drops the rows  *)
(***************************************************************************)
StatementGet(stmt) == IF stmt.rows = <<>> THEN Undefined ELSE stmt.rows[1]
StatementAll(stmt) == Arr(stmt.rows)
StatementRun(stmt) ==
  Obj([lastInsertRowid |-> stmt.lastInsertRowid, changes |-> stmt.changes])

\* an Error object: ref is its identity, message and code its properties
NewError(ref, message) == [ref |-> ref, message |-> Str(message), code |-> Undefined]
NoError == [ref |-> "none", message |-> Undefined, code |-> Undefined]

(***************************************************************************)
(* node-sqlite/index.js: _query.                                           *)
(***************************************************************************)
\* obj.method is a plain string; NoMethod stands for a query object that
\* has no method property
NoMethod == ""

\* obj.sql.trim().toLowerCase().startsWith('select') || ...startsWith('pragma')
StartsWithSelectOrPragma(sql) ==
  \/ StartsWith(ToLowerCase(Trim(sql)), TxtSelect)
  \/ StartsWith(ToLowerCase(Trim(sql)), TxtPragma)

\* the condition of the first branch of _query
IsSelectBranch(obj) ==
  \/ obj.method \in {"select", "first", "pluck", "columnInfo"}
  \/ obj.method = "raw" /\ StartsWithSelectOrPragma(obj.sql.v)
  \/ obj.method = NoMethod /\ StartsWithSelectOrPragma(obj.sql.v)

\* a returning branch that also takes del
IsReturningBranch_WithDel(obj) ==
  obj.method \in {"insert", "update", "del"} /\ Truthy(obj.returning)

\* the condition of the second branch of _query
IsReturningBranch(obj) ==
  obj.method \in {"insert", "update"} /\ Truthy(obj.returning)

\* a _query that fetches with statement.all whatever the method
StatementMethod_FirstUsesAll(obj) ==
  IF IsSelectBranch(obj) \/ IsReturningBranch(obj) THEN "all" ELSE "run"

\* the statement method _query calls after prepare
StatementMethod(obj) ==
  IF IsSelectBranch(obj)
    THEN (IF obj.method = "first" THEN "get" ELSE "all")
    ELSE IF IsReturningBranch(obj) THEN "all" ELSE "run"

\* the response _query computes once the statement has executed
QueryResponse(obj, stmt) ==
  IF IsSelectBranch(obj)
    THEN IF obj.method = "first"
           THEN LET response == StatementGet(stmt)
                IN _postProcessResponse(
                     IF Truthy(response) THEN Arr(<<response>>) ELSE Arr(<<>>))
           ELSE _postProcessResponse(StatementAll(stmt))
    ELSE IF IsReturningBranch(obj)
           THEN _postProcessResponse(StatementAll(stmt))
           ELSE StatementRun(stmt)

\* a context whose lastID is taken from the change counter
QueryContext_LastIdFromChanges(obj, stmt) ==
  IF IsSelectBranch(obj)
    THEN EmptyObj
    ELSE IF IsReturningBranch(obj)
      THEN Obj([lastID |-> Num(0), changes |-> Num(0)])
      ELSE LET result == StatementRun(stmt)
           IN Obj([lastID |-> Get(result, "changes"), changes |-> Get(result, "changes")])

\* the context _query computes once the statement has executed
QueryContext(obj, stmt) ==
  IF IsSelectBranch(obj)
    THEN EmptyObj
    ELSE IF IsReturningBranch(obj)
      THEN LET response == QueryResponse(obj, stmt)
               nonEmpty == Truthy(response) /\ Len(response.v) > 0
               firstRow == response.v[1]
               lastInsertRowid ==
                 IF nonEmpty /\ Truthy(firstRow) /\ Get(firstRow, "rowid").t # "undefined"
                   THEN Get(firstRow, "rowid")
                   ELSE Num(0)
               changes ==
                 IF nonEmpty /\ obj.method = "update"
                   THEN Num(Len(response.v))
                   ELSE Num(0)
           IN Obj([lastID |-> lastInsertRowid, changes |-> changes])
      ELSE LET result == StatementRun(stmt)
           IN Obj([lastID |-> Get(result, "lastInsertRowid"),
                   changes |-> Get(result, "changes")])

\* the message rewriting of the catch block of _query
NormalizeMessage(message) ==
  LET prefixed ==
        IF Includes(message, TxtConstraintFailed)
             /\ ~Includes(message, TxtSqliteConstraintColon)
          THEN TxtSqliteConstraintColon \o <<" ">> \o message
          ELSE message
  IN IF Includes(prefixed, TxtErrSqliteError)
       THEN Replace(prefixed, TxtErrSqliteError, TxtSqliteError)
       ELSE prefixed

\* the catch block of _query: the same error object, rewritten in place
NormalizeError(err) ==
  [err EXCEPT
     !.message = IF Truthy(@) /\ @.t = "string" THEN Str(NormalizeMessage(@.v)) ELSE @,
     !.code = IF @ = Str(TxtErrSqliteError) THEN Str(TxtSqliteError) ELSE @]

\* a _query that renders the bindings into the text it prepares
DriverCalls_SplicesBindings(obj, stmt) ==
  LET prepare == [op |-> "prepare", sql |-> formatQuery(obj.sql, obj.bindings)]
      execute == [op |-> StatementMethod(obj), bindings |-> <<>>]
  IN IF stmt.throwsAt = "prepare" THEN <<prepare>> ELSE <<prepare, execute>>

\* the driver calls of one _query, in order
DriverCalls(obj, stmt) ==
  LET prepare == [op |-> "prepare", sql |-> obj.sql.v]
      execute == [op |-> StatementMethod(obj), bindings |-> _formatBindings(obj.bindings)]
  IN IF stmt.throwsAt = "prepare" THEN <<prepare>> ELSE <<prepare, execute>>

\* a _query that looks at the connection before it looks at obj.sql
_query_ChecksConnectionFirst(connection, obj, stmt) ==
  IF ~Truthy(connection)
    THEN [state |-> "rejected", obj |-> obj, calls |-> <<>>,
          err |-> NewError("_query", TxtNoConnection)]
  ELSE IF ~Truthy(obj.sql)
    THEN [state |-> "rejected", obj |-> obj, calls |-> <<>>,
          err |-> NewError("_query", TxtQueryIsEmpty)]
  ELSE IF stmt.throwsAt # "none"
    THEN [state |-> "rejected", obj |-> obj, calls |-> DriverCalls(obj, stmt),
          err |-> NormalizeError(stmt.err)]
  ELSE [state |-> "fulfilled",
        obj |-> [obj EXCEPT !.response = QueryResponse(obj, stmt),
                            !.context = QueryContext(obj, stmt)],
        calls |-> DriverCalls(obj, stmt),
        err |-> NoError]

\* a _query that assigns response and context before the statement runs
_query_AssignsBeforeExecute(connection, obj, stmt) ==
  IF ~Truthy(obj.sql)
    THEN [state |-> "rejected", obj |-> obj, calls |-> <<>>,
          err |-> NewError("_query", TxtQueryIsEmpty)]
  ELSE IF ~Truthy(connection)
    THEN [state |-> "rejected", obj |-> obj, calls |-> <<>>,
          err |-> NewError("_query", TxtNoConnection)]
  ELSE IF stmt.throwsAt # "none"
    THEN [state |-> "rejected",
          obj |-> [obj EXCEPT !.response = Undefined, !.context = EmptyObj],
          calls |-> DriverCalls(obj, stmt),
          err |-> NormalizeError(stmt.err)]
  ELSE [state |-> "fulfilled",
        obj |-> [obj EXCEPT !.response = QueryResponse(obj, stmt),
                            !.context = QueryContext(obj, stmt)],
        calls |-> DriverCalls(obj, stmt),
        err |-> NoError]

\* _query(connection, obj) on a connection whose database answers as stmt:
\* how the returned promise settles, the query object afterwards (obj is
\* assigned in place), the error thrown and the driver calls made
_query(connection, obj, stmt) ==
  IF ~Truthy(obj.sql)
    THEN [state |-> "rejected", obj |-> obj, calls |-> <<>>,
          err |-> NewError("_query", TxtQueryIsEmpty)]
  ELSE IF ~Truthy(connection)
    THEN [state |-> "rejected", obj |-> obj, calls |-> <<>>,
          err |-> NewError("_query", TxtNoConnection)]
  ELSE IF stmt.throwsAt # "none"
    THEN [state |-> "rejected", obj |-> obj, calls |-> DriverCalls(obj, stmt),
          err |-> NormalizeError(stmt.err)]
  ELSE [state |-> "fulfilled",
        obj |-> [obj EXCEPT !.response = QueryResponse(obj, stmt),
                            !.context = QueryContext(obj, stmt)],
        calls |-> DriverCalls(obj, stmt),
        err |-> NoError]

(***************************************************************************)
(* node-sqlite/index.js: processResponse.                                  *)
(***************************************************************************)
\* obj.output.call(runner, response) for the output functions of the model:
\*   "hasRows"  (resp) => resp.length > 0
\*   "runner"   function () { return this }
ApplyOutput(output, runner, response) ==
  CASE output.v = "hasRows" ->
         (IF IsArray(response) THEN Bool(Len(response.v) > 0)
          ELSE IF response.t \in {"undefined", "null"} THEN TypeError
          ELSE Bool(FALSE))
    [] OTHER -> runner

\* a projection that hands the rows back instead of the column
PluckColumn_WholeRows(response, column) == response

\* response.map(row => row[obj.pluck])
PluckColumn(response, column) ==
  IF IsArray(response)
    THEN Arr([i \in DOMAIN response.v |-> Get(response.v[i], column)])
    ELSE TypeError

\* the body of `case 'insert'` and `case 'update'` up to the fallback
ReturnsRowset(obj) ==
  Truthy(obj.returning) /\ Truthy(obj.response) /\ IsArray(obj.response)

\* the count without the `|| 0` fallback
AffectedRows_NoFallback(ctx) == Get(ctx, "changes")

\* ctx.changes || 0
AffectedRows(ctx) == Or(Get(ctx, "changes"), Num(0))

\* the response without the `|| []` fallback
ResponseOrEmpty_NoFallback(response) == response

\* response || []
ResponseOrEmpty(response) == Or(response, Arr(<<>>))

\* a processResponse that looks at obj.output after the switch on the method
processResponse_OutputAfterSwitch(obj, runner) ==
  LET ctx == Or(obj.context, EmptyObj)
      response == obj.response
  IN IF Truthy(obj.output) /\ obj.method \in {"columnInfo", NoMethod}
       THEN ApplyOutput(obj.output, runner, response)
     ELSE CASE obj.method = "select" -> ResponseOrEmpty(response)
            [] obj.method = "first" ->
                 (IF Truthy(response) /\ IsArray(response) /\ Len(response.v) > 0
                    THEN response.v[1]
                    ELSE Undefined)
            [] obj.method = "pluck" ->
                 (IF Truthy(response) THEN PluckColumn(response, obj.pluck) ELSE Arr(<<>>))
            [] obj.method = "insert" ->
                 (IF ReturnsRowset(obj) THEN response ELSE Arr(<<Get(ctx, "lastID")>>))
            [] obj.method = "update" ->
                 (IF ReturnsRowset(obj) THEN response ELSE AffectedRows(ctx))
            [] obj.method \in {"del", "counter"} -> AffectedRows(ctx)
            [] obj.method = "raw" -> ResponseOrEmpty(response)
            [] OTHER -> response

\* processResponse(obj, runner): the value it returns
processResponse(obj, runner) ==
  LET ctx == Or(obj.context, EmptyObj)
      response == obj.response
  IN IF Truthy(obj.output) THEN ApplyOutput(obj.output, runner, response)
     ELSE CASE obj.method = "select" -> ResponseOrEmpty(response)
            [] obj.method = "first" ->
                 (IF Truthy(response) /\ IsArray(response) /\ Len(response.v) > 0
                    THEN response.v[1]
                    ELSE Undefined)
            [] obj.method = "pluck" ->
                 (IF Truthy(response) THEN PluckColumn(response, obj.pluck) ELSE Arr(<<>>))
            [] obj.method = "insert" ->
                 (IF ReturnsRowset(obj) THEN response ELSE Arr(<<Get(ctx, "lastID")>>))
            [] obj.method = "update" ->
                 (IF ReturnsRowset(obj) THEN response ELSE AffectedRows(ctx))
            [] obj.method \in {"del", "counter"} -> AffectedRows(ctx)
            [] obj.method = "raw" -> ResponseOrEmpty(response)
            [] OTHER -> response

(***************************************************************************)
(* The client the executioner is called with.  prepBindings and            *)
(* positionBindings are inherited from the base client, whose source is    *)
(* not part of the files modelled here: for this dialect the placeholder   *)
(* style is `?` and the coercion of typed values is left to                *)
(* _formatBindings, so both hand back what they are given.                 *)
(***************************************************************************)
\* the placeholder of the dialect
DialectPlaceholder == "?"

\* client.prepBindings(bindings)
prepBindings(bindings) == bindings

\* client.positionBindings(sql): every `?` rewritten to the dialect's placeholder
positionBindings(sql) ==
  IF sql.t = "string"
    THEN Str([i \in DOMAIN sql.v |-> IF sql.v[i] = "?" THEN DialectPlaceholder ELSE sql.v[i]])
    ELSE sql

\* isString(queryParam)
isString(x) == "t" \in DOMAIN x /\ x.t = "string"

\* String(x) as `+` applies it to the operand of a concatenation
ToText(x) ==
  CASE x.t = "string" -> x.v
    [] x.t = "undefined" -> <<"u", "n", "d", "e", "f", "i", "n", "e", "d">>
    [] x.t = "null" -> <<"n", "u", "l", "l">>
    [] x.t = "number" -> Decimal(x.v)
    [] OTHER -> <<"[", "o", "b", "j", "e", "c", "t", "]">>

(***************************************************************************)
(* The inputs of the model: configurations, connections, compiled          *)
(* queries and the answers of the database.                                *)
(***************************************************************************)
\* client.config
Configs ==
  {[compileSqlOnError |-> c] : c \in {Undefined, Bool(TRUE), Bool(FALSE)}}

\* pooled connections: the uid and the transaction id the pool and the
\* transaction put on the driver's handle
Connections ==
  {Obj([__knexUid |-> Num(1), __knexTxId |-> tx]) : tx \in {Undefined, Num(1), Num(2)}}

SqlTexts ==
  { <<>>,
    <<"s", "e", "l", "e", "c", "t", " ", "?">>,
    <<" ", "P", "R", "A", "G", "M", "A", " ", "f">>,
    <<"i", "n", "s", "e", "r", "t", " ", "?", " ", "\\", "?">>,
    <<"v", "a", "l", "u", "e", "s", "(", "?", ",", "?", ")">> }

BindingLists ==
  { Undefined,
    Arr(<<Bool(TRUE)>>),
    Arr(<<Str(<<"a", "'">>), Num(7), DateOf(3)>>) }

Methods ==
  {"select", "first", "pluck", "columnInfo", "insert", "update", "del", "counter", "raw"}

\* a query object with every property the two files read
QueryObject(sql, bindings, method, returning, pluck, output) ==
  [sql |-> sql, bindings |-> bindings, method |-> method, returning |-> returning,
   pluck |-> pluck, output |-> output, response |-> Undefined, context |-> Undefined]

\* the values of obj.returning the builder sets for a method
ReturningOf(method) ==
  IF method \in {"insert", "update", "del"}
    THEN {Undefined, Str(<<"i", "d">>)}
    ELSE {Undefined}

\* the compiled queries the builder hands over: returning is set on insert,
\* update and del only, pluck on pluck only
CompiledQueries ==
  UNION { { QueryObject(Str(sql), bindings, method, returning,
                        IF method = "pluck" THEN "name" ELSE "", Undefined) :
              sql \in SqlTexts, bindings \in BindingLists,
              returning \in ReturningOf(method) } :
          method \in Methods \cup {NoMethod} }

\* compiled queries that carry an output function
OutputQueries ==
  { QueryObject(Str(<<" ", "P", "R", "A", "G", "M", "A", " ", "f">>), Undefined,
                method, Undefined, "", Fn(output)) :
      method \in {"columnInfo", "raw"}, output \in {"hasRows", "runner"} }

\* what enrichQueryObject is called with: a compiled query or a bare SQL string
QueryParams ==
  CompiledQueries \cup OutputQueries \cup {Str(sql) : sql \in SqlTexts}

RowA == Obj([id |-> Num(1), name |-> Str(<<"a">>)])
RowB == Obj([id |-> Num(2), rowid |-> Num(9)])

\* the rowsets a statement may yield
Rowsets == UNION {[1..n -> {RowA, RowB}] : n \in 0..MaxRows}

\* the counters statement.run may report
RunCounters ==
  { [lastInsertRowid |-> Undefined, changes |-> Undefined],
    [lastInsertRowid |-> Num(0), changes |-> Num(0)],
    [lastInsertRowid |-> Num(5), changes |-> Num(2)] }

\* the errors the driver may throw
DriverErrors ==
  { [ref |-> "driver",
     message |-> Str(<<"c", "o", "n", "s", "t", "r", "a", "i", "n", "t", " ",
                       "f", "a", "i", "l", "e", "d", ":", " ", "t", ".", "i", "d">>),
     code |-> Str(TxtErrSqliteError)],
    [ref |-> "driver",
     message |-> Str(<<"E", "R", "R", "_", "S", "Q", "L", "I", "T", "E", "_",
                       "E", "R", "R", "O", "R", ":", " ", "n", "o", " ", "t">>),
     code |-> Undefined],
    [ref |-> "driver", message |-> Undefined, code |-> Str(<<"X">>)],
    [ref |-> "driver",
     message |-> Str(TxtSqliteConstraintColon \o <<" ">> \o TxtConstraintFailed),
     code |-> Undefined],
    [ref |-> "driver",
     message |-> Str(TxtErrSqliteError \o <<" ">> \o TxtErrSqliteError),
     code |-> Str(TxtErrSqliteError)] }

\* the answers of the database to one statement
Statements ==
  { [throwsAt |-> "none", err |-> NoError, rows |-> rows,
     lastInsertRowid |-> c.lastInsertRowid, changes |-> c.changes] :
      rows \in Rowsets, c \in RunCounters }
  \cup
  { [throwsAt |-> at, err |-> e, rows |-> <<>>,
     lastInsertRowid |-> Undefined, changes |-> Undefined] :
      at \in {"prepare", "execute"}, e \in DriverErrors }

\* the runner processResponse is called with
Runner == Obj([client |-> Str(<<"n", "o", "d", "e", "-", "s", "q", "l", "i", "t", "e">>)])

(***************************************************************************)
(* The state: one runner task taking one query through enrichQueryObject,  *)
(* executeQuery and processResponse.                                       *)
(***************************************************************************)
VARIABLES
  pc,           \* where the runner task is
  config,       \* client.config
  connection,   \* the connection the runner holds
  queryParam,   \* the query as the caller handed it over
  queryObject,  \* the query object enrichQueryObject returned (assigned in place)
  stmt,         \* how the database answers the statement of this query
  error,        \* the error object in flight, with its current properties
  outcome,      \* how the promise of executeQuery settled
  result,       \* what processResponse returned
  stream,       \* the stream _stream writes to
  trace         \* the driver calls, emitted events and settlements, in order

vars ==
  <<pc, config, connection, queryParam, queryObject, stmt, error, outcome, result,
    stream, trace>>

NoQuery == QueryObject(Undefined, Undefined, NoMethod, Undefined, "", Undefined)
NoStatement ==
  [throwsAt |-> "none", err |-> NoError, rows |-> <<>>,
   lastInsertRowid |-> Undefined, changes |-> Undefined]
Pending == [state |-> "pending"]
NoStream ==
  [highWaterMark |-> 0, listeners |-> {}, buffer |-> <<>>, needDrain |-> FALSE,
   ended |-> FALSE, endEmitted |-> FALSE]

Init ==
  /\ pc = "start"
  /\ config \in Configs
  /\ connection \in Connections
  /\ queryParam = Undefined
  /\ queryObject = NoQuery
  /\ stmt = NoStatement
  /\ error = NoError
  /\ outcome = Pending
  /\ result = Undefined
  /\ stream = NoStream
  /\ trace = <<>>

\* a payload put together before the bindings were assigned
QueryPayload_WithoutBindings(conn, obj) ==
  [obj EXCEPT !.bindings = Undefined]
    @@ [__knexUid |-> Get(conn, "__knexUid"), __knexTxId |-> Get(conn, "__knexTxId")]

\* Object.assign({ __knexUid, __knexTxId }, queryObject) of enrichQueryObject
QueryPayload(conn, obj) ==
  obj @@ [__knexUid |-> Get(conn, "__knexUid"), __knexTxId |-> Get(conn, "__knexTxId")]

\* the object enrichQueryObject works on, with bindings and sql reassigned
EnrichedQuery(param) ==
  LET obj == IF isString(param)
               THEN QueryObject(param, Undefined, NoMethod, Undefined, "", Undefined)
               ELSE param
  IN [obj EXCEPT !.bindings = prepBindings(obj.bindings),
                 !.sql = positionBindings(obj.sql)]

\* enrichQueryObject(connection, queryParam, client)
EnrichQueryObject ==
  /\ pc = "start"
  /\ \E param \in QueryParams :
       /\ queryParam' = param
       /\ queryObject' = EnrichedQuery(param)
       /\ trace' = Append(trace, [op |-> "emit", event |-> "query",
                                  payload |-> QueryPayload(connection, EnrichedQuery(param))])
  /\ pc' = "enriched"
  /\ UNCHANGED <<config, connection, stmt, error, outcome, result, stream>>

\* executeQuery(connection, queryObject, client): the call of client._query
ExecuteQuery ==
  /\ pc = "enriched"
  /\ \E s \in Statements :
       LET r == _query(connection, queryObject, s)
       IN /\ stmt' = s
          /\ queryObject' = r.obj
          /\ error' = r.err
          /\ trace' = trace \o r.calls
                        \o <<[op |-> "_query", state |-> r.state, err |-> r.err,
                              value |-> r.obj]>>
          /\ pc' = IF r.state = "fulfilled" THEN "then" ELSE "catch"
  /\ UNCHANGED <<config, connection, queryParam, outcome, result, stream>>

\* the .then callback of executeQuery: debugResult, return result
ExecuteQueryThen ==
  /\ pc = "then"
  /\ outcome' = [state |-> "fulfilled", value |-> queryObject]
  /\ trace' = Append(trace, [op |-> "settle", state |-> "fulfilled", value |-> queryObject])
  /\ pc' = "resolved"
  /\ UNCHANGED <<config, connection, queryParam, queryObject, stmt, error, result, stream>>

\* a .catch callback that renders the bindings whatever the configuration
ErrorSql_AlwaysCompiled(cfg, obj) == formatQuery(obj.sql, obj.bindings)

\* the text the .catch callback puts in front of the message
ErrorSql(cfg, obj) ==
  IF Truthy(Obj(cfg)) /\ cfg.compileSqlOnError = Bool(FALSE)
    THEN ToText(obj.sql)
    ELSE formatQuery(obj.sql, obj.bindings)

\* err after the .catch callback assigned err.message
DecoratedError(cfg, obj, err) ==
  [err EXCEPT !.message = Str(ErrorSql(cfg, obj) \o TxtSeparator \o ToText(err.message))]

\* the second Object.assign of executeQuery: the payload of 'query-error'
QueryErrorPayload(conn, obj) ==
  obj @@ [__knexUid |-> Get(conn, "__knexUid"), __knexTxId |-> Get(conn, "__knexUid")]

\* a .catch callback that rethrows without emitting 'query-error'
ExecuteQueryCatch_NoEmit ==
  /\ pc = "catch"
  /\ error' = DecoratedError(config, queryObject, error)
  /\ trace' = Append(trace, [op |-> "settle", state |-> "rejected",
                             err |-> DecoratedError(config, queryObject, error)])
  /\ outcome' = [state |-> "rejected", err |-> DecoratedError(config, queryObject, error)]
  /\ pc' = "rejected"
  /\ UNCHANGED <<config, connection, queryParam, queryObject, stmt, result, stream>>

\* a .catch callback that hands the query to client._query once more
ExecuteQueryCatch_Retries ==
  /\ pc = "catch"
  /\ error' = NoError
  /\ pc' = "enriched"
  /\ UNCHANGED <<config, connection, queryParam, queryObject, stmt, outcome, result,
                 stream, trace>>

\* the .catch callback of executeQuery
ExecuteQueryCatch ==
  /\ pc = "catch"
  /\ error' = DecoratedError(config, queryObject, error)
  /\ trace' = trace \o
       <<[op |-> "emit", event |-> "query-error",
          err |-> DecoratedError(config, queryObject, error),
          payload |-> QueryErrorPayload(connection, queryObject)],
         [op |-> "settle", state |-> "rejected",
          err |-> DecoratedError(config, queryObject, error)]>>
  /\ outcome' = [state |-> "rejected", err |-> DecoratedError(config, queryObject, error)]
  /\ pc' = "rejected"
  /\ UNCHANGED <<config, connection, queryParam, queryObject, stmt, result, stream>>

\* client.processResponse(obj, runner) on the resolved query object
ProcessResponse ==
  /\ pc = "resolved"
  /\ result' = processResponse(queryObject, Runner)
  /\ pc' = "done"
  /\ UNCHANGED <<config, connection, queryParam, queryObject, stmt, error, outcome, stream, trace>>

Next ==
  \/ EnrichQueryObject
  \/ ExecuteQuery
  \/ ExecuteQueryThen
  \/ ExecuteQueryCatch
  \/ ProcessResponse

Spec == Init /\ [][Next]_vars

(***************************************************************************)
(* processResponse on its own: the unit tests call it on hand-built query  *)
(* objects, so it is also checked on every combination of method,          *)
(* returning, output, response and context, whether or not _query can      *)
(* produce it.                                                             *)
(***************************************************************************)
ResponseValues ==
  {Undefined, Null} \cup {Arr(rows) : rows \in Rowsets} \cup {Obj(c) : c \in RunCounters}

ContextValues ==
  {Undefined, EmptyObj}
    \cup {Obj([lastID |-> c.lastInsertRowid, changes |-> c.changes]) : c \in RunCounters}

ProcessResponseInputs ==
  { [QueryObject(Str(<<"s", "e", "l", "e", "c", "t", " ", "?">>), Undefined, method,
                 returning, pluck, output)
       EXCEPT !.response = response, !.context = context] :
      method \in Methods \cup {NoMethod},
      returning \in {Undefined, Str(<<"i", "d">>)},
      pluck \in {"id", "name"},
      output \in {Undefined, Fn("hasRows"), Fn("runner")},
      response \in ResponseValues,
      context \in ContextValues }

InitProcessResponse ==
  /\ pc = "resolved"
  /\ config \in {[compileSqlOnError |-> Undefined]}
  /\ connection \in {Obj([__knexUid |-> Num(1), __knexTxId |-> Undefined])}
  /\ queryObject \in ProcessResponseInputs
  /\ queryParam = queryObject
  /\ stmt = NoStatement
  /\ error = NoError
  /\ outcome = [state |-> "fulfilled", value |-> queryObject]
  /\ result = Undefined
  /\ stream = NoStream
  /\ trace = <<>>

NextProcessResponse == ProcessResponse

SpecProcessResponse == InitProcessResponse /\ [][NextProcessResponse]_vars

(***************************************************************************)
(* node-sqlite/index.js: acquireRawConnection and destroyRawConnection.    *)
(* A database handle of the driver is an object with the state the two     *)
(* methods can change or depend on: whether it is open, its foreign_keys   *)
(* and journal_mode pragmas and the options it was opened with.  The       *)
(* driver enforces foreign keys on a new handle unless the option          *)
(* enableForeignKeyConstraints says otherwise.                             *)
(***************************************************************************)
TxtJournalModeWal ==
  <<"P", "R", "A", "G", "M", "A", " ", "j", "o", "u", "r", "n", "a", "l", "_",
    "m", "o", "d", "e", " ", "=", " ", "W", "A", "L">>
TxtForeignKeysOff ==
  <<"P", "R", "A", "G", "M", "A", " ", "f", "o", "r", "e", "i", "g", "n", "_",
    "k", "e", "y", "s", " ", "=", " ", "O", "F", "F">>
TxtMemory == <<":", "m", "e", "m", "o", "r", "y", ":">>

\* connectionSettings.options as a user may give them
OptionSets ==
  { Undefined,
    EmptyObj,
    Obj([enableForeignKeyConstraints |-> Bool(FALSE)]),
    Obj([enableForeignKeyConstraints |-> Bool(TRUE)]),
    Obj([enableDoubleQuotedStringLiterals |-> Bool(FALSE)]),
    Obj([readOnly |-> Bool(TRUE), timeout |-> Num(5)]) }

\* this.connectionSettings
ConnectionSettings ==
  { [filename |-> f, options |-> o] :
      f \in {Undefined, Str(TxtMemory), Str(<<".", "/", "d", "b">>)},
      o \in OptionSets }

\* how the driver answers while a connection is acquired: whether opening
\* the file and each of the two pragmas succeeds or throws
DriverAnswers ==
  [open : {"ok", "throws"}, journal_mode : {"ok", "throws"}, foreign_keys : {"ok", "throws"}]

\* an Object.assign the other way round: the default wins over the user
DriverOptions_DefaultWins(settings) ==
  LET options == [enableDoubleQuotedStringLiterals |-> Bool(TRUE)]
  IN IF Truthy(settings.options) THEN options @@ settings.options.v ELSE options

\* the options acquireRawConnection hands to new DatabaseSync
DriverOptions(settings) ==
  LET options == [enableDoubleQuotedStringLiterals |-> Bool(TRUE)]
  IN IF Truthy(settings.options) THEN settings.options.v @@ options ELSE options

\* the file name acquireRawConnection hands to new DatabaseSync
DriverFilename(settings) == Or(settings.filename, Str(TxtMemory))

\* new DatabaseSync(filename, options): the handle, when opening succeeds
DatabaseSync(filename, options) ==
  Obj([open |-> Bool(TRUE),
       filename |-> filename,
       options |-> Obj(options),
       journal_mode |-> "delete",
       foreign_keys |->
         IF "enableForeignKeyConstraints" \in DOMAIN options
           THEN options.enableForeignKeyConstraints
           ELSE Bool(TRUE)])

\* the handle after the try block of acquireRawConnection: the second
\* pragma runs only when the first did not throw
ConfiguredDatabase(db, driver) ==
  IF driver.journal_mode = "throws"
    THEN db
    ELSE IF driver.foreign_keys = "throws"
      THEN Obj([db.v EXCEPT !.journal_mode = "wal"])
      ELSE Obj([db.v EXCEPT !.journal_mode = "wal", !.foreign_keys = Bool(FALSE)])

\* the driver calls of acquireRawConnection, in order
AcquireCalls(settings, driver) ==
  LET open == [op |-> "new DatabaseSync", filename |-> DriverFilename(settings),
               options |-> Obj(DriverOptions(settings))]
      journal == <<[op |-> "prepare", sql |-> TxtJournalModeWal], [op |-> "run", bindings |-> <<>>]>>
      foreign == <<[op |-> "prepare", sql |-> TxtForeignKeysOff], [op |-> "run", bindings |-> <<>>]>>
  IN IF driver.open = "throws" THEN <<open>>
     ELSE IF driver.journal_mode = "throws" THEN <<open>> \o journal
     ELSE <<open>> \o journal \o foreign

InitConnection ==
  /\ pc = "unconnected"
  /\ config \in ConnectionSettings
  /\ connection = Null
  /\ queryParam = Undefined
  /\ queryObject = NoQuery
  /\ stmt = NoStatement
  /\ error = NoError
  /\ outcome = Pending
  /\ result = Undefined
  /\ stream = NoStream
  /\ trace = <<>>

\* acquireRawConnection(): opens the database, runs the two pragmas inside
\* one try block and resolves with the handle; a throw of the constructor
\* rejects the promise of the async function
AcquireRawConnection ==
  /\ pc = "unconnected"
  /\ \E driver \in DriverAnswers :
       /\ stmt' = driver
       /\ trace' = trace \o AcquireCalls(config, driver)
       /\ IF driver.open = "throws"
            THEN /\ connection' = connection
                 /\ error' = [ref |-> "driver", message |-> Undefined, code |-> Undefined]
                 /\ outcome' = [state |-> "rejected", err |-> error']
                 /\ pc' = "acquireFailed"
            ELSE /\ connection' =
                      ConfiguredDatabase(
                        DatabaseSync(DriverFilename(config), DriverOptions(config)), driver)
                 /\ error' = error
                 /\ outcome' = [state |-> "fulfilled", value |-> connection']
                 /\ pc' = "acquired"
  /\ UNCHANGED <<config, queryParam, queryObject, result, stream>>

\* destroyRawConnection(connection): resolves, and does nothing else
DestroyRawConnection ==
  /\ pc = "acquired"
  /\ outcome' = [state |-> "fulfilled", value |-> Undefined]
  /\ pc' = "destroyed"
  /\ UNCHANGED <<config, connection, queryParam, queryObject, stmt, error, result, stream, trace>>

NextConnection ==
  \/ AcquireRawConnection
  \/ DestroyRawConnection

SpecConnection == InitConnection /\ [][NextConnection]_vars

(***************************************************************************)
(* node-sqlite/index.js: _stream.  The stream is the object-mode stream    *)
(* the runner hands over: write(chunk) buffers the chunk and returns       *)
(* whether the buffer is still below the high-water mark, the reader on    *)
(* the other side takes chunks out and 'drain' follows once a full buffer  *)
(* has emptied, and 'end' is emitted once end() was called and every       *)
(* chunk has been read.                                                    *)
(***************************************************************************)
MaxHighWaterMark == 2

\* the queries _stream is called with: already compiled and enriched
StreamQueries ==
  { q \in CompiledQueries :
      /\ q.method \in {"select", "insert"}
      /\ q.bindings = Arr(<<Bool(TRUE)>>)
      /\ q.returning = Undefined
      /\ Len(q.sql.v) < 9 }

\* stream.on(event, listener)
StreamOn(s, event, listener) ==
  [s EXCEPT !.listeners = @ \cup {[event |-> event, listener |-> listener]}]

\* stream.write(chunk): the stream afterwards and the value write returns
StreamWrite(s, chunk) ==
  LET ret == Len(s.buffer) + 1 < s.highWaterMark
  IN [stream |-> [s EXCEPT !.buffer = Append(@, chunk),
                           !.needDrain = @ \/ ~ret],
      ret |-> ret]

\* rows.forEach((row) => stream.write(row)) from row i on: the stream
\* afterwards and the calls made, each with the state of the sink it met
RECURSIVE ForEachWriteFrom(_, _, _)
ForEachWriteFrom(s, rows, i) ==
  IF i > Len(rows)
    THEN [stream |-> s, calls |-> <<>>]
    ELSE LET w == StreamWrite(s, rows[i])
             rest == ForEachWriteFrom(w.stream, rows, i + 1)
         IN [stream |-> rest.stream,
             calls |-> <<[op |-> "write", chunk |-> rows[i],
                          needDrain |-> s.needDrain, ret |-> w.ret]>> \o rest.calls]

\* a loop that stops one row short
ForEachWrite_SkipsLast(s, rows) ==
  ForEachWriteFrom(s, SubSeq(rows, 1, Len(rows) - 1), 1)

\* rows.forEach((row) => stream.write(row))
ForEachWrite(s, rows) == ForEachWriteFrom(s, rows, 1)

InitStream ==
  /\ pc = "stream"
  /\ config \in {[compileSqlOnError |-> Undefined]}
  /\ connection \in Connections
  /\ queryParam = Undefined
  /\ queryObject \in StreamQueries
  /\ stmt = NoStatement
  /\ error = NoError
  /\ outcome = Pending
  /\ result = Undefined
  /\ stream \in {[NoStream EXCEPT !.highWaterMark = h] : h \in 1..MaxHighWaterMark}
  /\ trace = <<>>

\* _stream(connection, obj, stream) up to the return of the promise: the
\* check of obj.sql, the executor of new Promise with the two listeners
\* and the call of client._query
Stream ==
  /\ pc = "stream"
  /\ IF ~Truthy(queryObject.sql)
       THEN /\ error' = NewError("_stream", TxtQueryIsEmpty)
            /\ outcome' = [state |-> "thrown", err |-> error']
            /\ pc' = "stream:thrown"
            /\ UNCHANGED <<queryObject, stmt, stream, trace>>
       ELSE \E s \in Statements :
              LET r == _query(connection, queryObject, s)
              IN /\ stmt' = s
                 /\ stream' = StreamOn(StreamOn(stream, "error", "rejecter"),
                                       "end", "resolver")
                 /\ queryObject' = r.obj
                 /\ error' = r.err
                 /\ trace' = trace \o r.calls
                               \o <<[op |-> "_query", state |-> r.state, err |-> r.err,
                                     value |-> r.obj]>>
                 /\ pc' = IF r.state = "fulfilled" THEN "stream:rows" ELSE "stream:catch"
                 /\ outcome' = outcome
  /\ UNCHANGED <<config, connection, queryParam, result>>

\* the two .then callbacks on the promise of _query: obj => obj.response,
\* then the loop over the rows; the first changes nothing
StreamRows ==
  /\ pc = "stream:rows"
  /\ LET rows == queryObject.response
         w == IF IsArray(rows) THEN ForEachWrite(stream, rows.v)
                               ELSE [stream |-> stream, calls |-> <<>>]
     IN /\ stream' = w.stream
        /\ trace' = trace \o w.calls
  /\ pc' = "stream:end"
  /\ UNCHANGED <<config, connection, queryParam, queryObject, stmt, error, outcome, result>>

\* a .catch callback that drops the error
StreamCatch_Swallows ==
  /\ pc = "stream:catch"
  /\ pc' = "stream:end"
  /\ UNCHANGED <<config, connection, queryParam, queryObject, stmt, error, outcome,
                 result, stream, trace>>

\* the .catch callback: stream.emit('error', err) calls the listeners of
\* 'error' synchronously, here the rejecter of the promise
StreamCatch ==
  /\ pc = "stream:catch"
  /\ IF [event |-> "error", listener |-> "rejecter"] \in stream.listeners
          /\ outcome.state = "pending"
       THEN /\ outcome' = [state |-> "rejected", err |-> error]
            /\ trace' = trace \o <<[op |-> "emit", event |-> "error", err |-> error],
                                   [op |-> "settle", state |-> "rejected", err |-> error]>>
       ELSE /\ outcome' = outcome
            /\ trace' = Append(trace, [op |-> "emit", event |-> "error", err |-> error])
  /\ pc' = "stream:end"
  /\ UNCHANGED <<config, connection, queryParam, queryObject, stmt, error, result, stream>>

\* the last .then callback: stream.end()
StreamEnd ==
  /\ pc = "stream:end"
  /\ stream' = [stream EXCEPT !.ended = TRUE]
  /\ trace' = Append(trace, [op |-> "end"])
  /\ pc' = "stream:returned"
  /\ UNCHANGED <<config, connection, queryParam, queryObject, stmt, error, outcome, result>>

\* the reader of the stream takes one chunk; 'drain' follows when a buffer
\* that had filled is empty again
StreamRead ==
  /\ stream.buffer # <<>>
  /\ LET rest == Tail(stream.buffer)
         drained == stream.needDrain /\ rest = <<>> /\ ~stream.ended
     IN /\ stream' = [stream EXCEPT !.buffer = rest,
                                    !.needDrain = IF drained THEN FALSE ELSE @]
        /\ trace' = IF drained
                      THEN Append(trace, [op |-> "emit", event |-> "drain"])
                      ELSE trace
  /\ UNCHANGED <<pc, config, connection, queryParam, queryObject, stmt, error, outcome, result>>

\* the stream emits 'end' once it was ended and read to the last chunk; the
\* listener of 'end' is the resolver, which settles a promise still pending
StreamEmitEnd ==
  /\ stream.ended
  /\ stream.buffer = <<>>
  /\ ~stream.endEmitted
  /\ stream' = [stream EXCEPT !.endEmitted = TRUE]
  /\ IF [event |-> "end", listener |-> "resolver"] \in stream.listeners
          /\ outcome.state = "pending"
       THEN /\ outcome' = [state |-> "fulfilled", value |-> Undefined]
            /\ trace' = trace \o <<[op |-> "emit", event |-> "end"],
                                   [op |-> "settle", state |-> "fulfilled", value |-> Undefined]>>
       ELSE /\ outcome' = outcome
            /\ trace' = Append(trace, [op |-> "emit", event |-> "end"])
  /\ UNCHANGED <<pc, config, connection, queryParam, queryObject, stmt, error, result>>

NextStream ==
  \/ Stream
  \/ StreamRows
  \/ StreamCatch
  \/ StreamEnd
  \/ StreamRead
  \/ StreamEmitEnd

SpecStream == InitStream /\ [][NextStream]_vars

(***************************************************************************)
(* formatQuery and _formatBindings on their own: the two functions         *)
(* applied to SQL texts over an alphabet of a letter, the placeholder and  *)
(* the backslash, and to binding lists of every kind of value.             *)
(***************************************************************************)
MaxSqlLen == 4

FormatSqlTexts == UNION {[1..n -> {"a", "?", "\\"}] : n \in 0..MaxSqlLen}

FormatBindingLists ==
  BindingLists \cup
    { Null, Arr(<<>>), Arr(<<Bool(FALSE), DateOf(0), Undefined, Str(<<"a">>)>>) }

InitFormat ==
  /\ pc = "format"
  /\ config \in {[compileSqlOnError |-> Undefined]}
  /\ connection = Null
  /\ queryParam = Undefined
  /\ queryObject \in { QueryObject(Str(sql), bindings, NoMethod, Undefined, "", Undefined) :
                         sql \in FormatSqlTexts, bindings \in FormatBindingLists }
  /\ stmt = NoStatement
  /\ error = NoError
  /\ outcome = Pending
  /\ result = Undefined
  /\ stream = NoStream
  /\ trace = <<>>

\* formatQuery(queryObject.sql, queryObject.bindings, undefined, client)
FormatQuery ==
  /\ pc = "format"
  /\ result' = Str(formatQuery(queryObject.sql, queryObject.bindings))
  /\ pc' = "formatted"
  /\ UNCHANGED <<config, connection, queryParam, queryObject, stmt, error, outcome,
                 stream, trace>>

\* client._formatBindings(obj.bindings, obj.sql, obj.method)
FormatBindings ==
  /\ pc = "format"
  /\ result' = Arr(_formatBindings(queryObject.bindings))
  /\ pc' = "bound"
  /\ UNCHANGED <<config, connection, queryParam, queryObject, stmt, error, outcome,
                 stream, trace>>

NextFormat ==
  \/ FormatQuery
  \/ FormatBindings

SpecFormat == InitFormat /\ [][NextFormat]_vars

(***************************************************************************)
(* Concurrent tasks on one connection.  Every task calls client._query on  *)
(* the same handle.  The body of _query has no await and the driver is     *)
(* synchronous, so the body runs on the one JavaScript thread from the     *)
(* call to the return of the promise: while a task is between prepare and  *)
(* execute, no callback of another task runs.  In this part of the model   *)
(* pc, queryObject, stmt and outcome are functions of the task.            *)
(***************************************************************************)
MaxTasks == 2

Tasks == 1..MaxTasks

\* the queries the tasks issue
ConcurrentQueries ==
  { q \in CompiledQueries :
      /\ q.method \in {"first", "del"}
      /\ q.bindings = Arr(<<Bool(TRUE)>>)
      /\ q.returning = Undefined
      /\ Len(q.sql.v) < 9 }

\* the answers of the database to the statements of the tasks
ConcurrentStatements ==
  { s \in Statements :
      /\ s.throwsAt = "none" => Len(s.rows) = 1 /\ s.changes = Num(2)
      /\ s.throwsAt # "none" => s.err.message = Undefined }

\* a task other than t is inside the synchronous body of _query
OtherTaskRunning(t) == \E u \in Tasks \ {t} : pc[u] = "prepared"

\* a scheduler that lets a callback run while another one is running
RunToCompletion_Preemptive(t) == TRUE

\* the one thread of JavaScript: a callback of task t starts only when no
\* other callback is running
RunToCompletion(t) == ~OtherTaskRunning(t)

\* a driver call of _query, marked with the task that made it
CallOfTask(t, call) == call @@ [task |-> t]

InitConcurrent ==
  /\ pc = [t \in Tasks |-> "waiting"]
  /\ config \in {[compileSqlOnError |-> Undefined]}
  /\ connection \in {Obj([__knexUid |-> Num(1), __knexTxId |-> Undefined])}
  /\ queryParam = Undefined
  /\ queryObject \in [Tasks -> ConcurrentQueries]
  /\ stmt = [t \in Tasks |-> NoStatement]
  /\ error = NoError
  /\ outcome = [t \in Tasks |-> Pending]
  /\ result = Undefined
  /\ stream = NoStream
  /\ trace = <<>>

\* task t calls client._query(connection, obj): the checks of obj.sql and
\* connection, _formatBindings and connection.prepare(obj.sql)
QueryPrepare(t) ==
  /\ pc[t] = "waiting"
  /\ RunToCompletion(t)
  /\ \E s \in ConcurrentStatements :
       LET r == _query(connection, queryObject[t], s)
           call == [op |-> "call", task |-> t]
       IN /\ stmt' = [stmt EXCEPT ![t] = s]
          /\ IF r.calls = <<>>
               THEN /\ trace' = Append(trace, call)
                    /\ pc' = [pc EXCEPT ![t] = "returned"]
                    /\ outcome' = [outcome EXCEPT ![t] = [state |-> r.state, err |-> r.err]]
               ELSE /\ trace' = trace \o <<call, CallOfTask(t, r.calls[1])>>
                    /\ IF Len(r.calls) = 1
                         THEN /\ pc' = [pc EXCEPT ![t] = "returned"]
                              /\ outcome' =
                                   [outcome EXCEPT ![t] = [state |-> r.state, err |-> r.err]]
                         ELSE /\ pc' = [pc EXCEPT ![t] = "prepared"]
                              /\ outcome' = outcome
  /\ UNCHANGED <<config, connection, queryParam, queryObject, error, result, stream>>

\* the rest of the body of _query: the statement is executed and the
\* promise of the async function settles
QueryExecute(t) ==
  /\ pc[t] = "prepared"
  /\ RunToCompletion(t)
  /\ LET r == _query(connection, queryObject[t], stmt[t])
     IN /\ trace' = Append(trace, CallOfTask(t, r.calls[2]))
        /\ queryObject' = [queryObject EXCEPT ![t] = r.obj]
        /\ outcome' = [outcome EXCEPT ![t] =
                         IF r.state = "fulfilled"
                           THEN [state |-> r.state, value |-> r.obj]
                           ELSE [state |-> r.state, err |-> r.err]]
  /\ pc' = [pc EXCEPT ![t] = "returned"]
  /\ UNCHANGED <<config, connection, queryParam, stmt, error, result, stream>>

\* the callback task t put on the promise of _query
QuerySettled(t) ==
  /\ pc[t] = "returned"
  /\ RunToCompletion(t)
  /\ trace' = Append(trace, [op |-> "settle", task |-> t, state |-> outcome[t].state])
  /\ pc' = [pc EXCEPT ![t] = "settled"]
  /\ UNCHANGED <<config, connection, queryParam, queryObject, stmt, error, outcome,
                 result, stream>>

NextConcurrent ==
  \E t \in Tasks :
    \/ QueryPrepare(t)
    \/ QueryExecute(t)
    \/ QuerySettled(t)

SpecConcurrent == InitConcurrent /\ [][NextConcurrent]_vars

(***************************************************************************)
(* client._query called on its own: every compiled query, also one without *)
(* sql and ones that carry the response and context of an earlier          *)
(* execution, on a connection that may be missing.  queryParam keeps the   *)
(* query object as it was before the call.                                 *)
(***************************************************************************)
\* a query object that has been executed before
Executed(q) ==
  [q EXCEPT !.response = Arr(<<RowA>>),
            !.context = Obj([lastID |-> Num(1), changes |-> Num(1)])]

QueryInputs ==
  CompiledQueries
    \cup {QueryObject(Undefined, Undefined, "select", Undefined, "", Undefined)}
    \cup {Executed(q) : q \in {c \in CompiledQueries : c.bindings = Undefined}}

QueryConnections ==
  {Obj([__knexUid |-> Num(1), __knexTxId |-> Undefined]), Undefined}

InitQuery ==
  /\ pc = "query"
  /\ config \in {[compileSqlOnError |-> Undefined]}
  /\ connection \in QueryConnections
  /\ queryObject \in QueryInputs
  /\ queryParam = queryObject
  /\ stmt = NoStatement
  /\ error = NoError
  /\ outcome = Pending
  /\ result = Undefined
  /\ stream = NoStream
  /\ trace = <<>>

\* client._query(connection, obj), from the call to the settled promise
Query ==
  /\ pc = "query"
  /\ \E s \in Statements :
       LET r == _query(connection, queryObject, s)
       IN /\ stmt' = s
          /\ queryObject' = r.obj
          /\ error' = r.err
          /\ trace' = trace \o r.calls
                        \o <<[op |-> "_query", state |-> r.state, err |-> r.err,
                              value |-> r.obj]>>
          /\ outcome' = IF r.state = "fulfilled"
                          THEN [state |-> "fulfilled", value |-> r.obj]
                          ELSE [state |-> "rejected", err |-> r.err]
  /\ pc' = "returned"
  /\ UNCHANGED <<config, connection, queryParam, result, stream>>

NextQuery == Query

SpecQuery == InitQuery /\ [][NextQuery]_vars

(***************************************************************************)
(* node-sqlite/index.js: acquireConnection.  The inherited                 *)
(* acquireConnection belongs to the base client, whose source is not part  *)
(* of the files modelled here: it asks the pool for a connection and       *)
(* either resolves with it or rejects with an Error, a timeout of the pool *)
(* among them.                                                             *)
(***************************************************************************)
\* the grave accent, a character a string of TLA+ cannot hold
Backtick == "U+0060"
TxtTimeoutAcquiring ==
  <<"T", "i", "m", "e", "o", "u", "t", " ", "a", "c", "q", "u", "i", "r", "i",
    "n", "g", " ", "a", " ", "c", "o", "n", "n", "e", "c", "t", "i", "o",
    "n">>
TxtSqliteHint ==
  <<"\n", "\n", "S", "Q", "L", "i", "t", "e", " ", "C", "o", "n", "n", "e",
    "c", "t", "i", "o", "n", " ", "I", "s", "s", "u", "e", ":", " ", "S", "Q",
    "L", "i", "t", "e", " ", "o", "n", "l", "y", " ", "s", "u", "p", "p", "o",
    "r", "t", "s", " ", "a", " ", "s", "i", "n", "g", "l", "e", " ", "c", "o",
    "n", "n", "e", "c", "t", "i", "o", "n", " ", "p", "e", "r", " ", "d", "a",
    "t", "a", "b", "a", "s", "e", " ", "f", "i", "l", "e", ".", "\n", "I",
    "f", " ", "y", "o", "u", "'", "r", "e", " ", "u", "s", "i", "n", "g", " ",
    "t", "r", "a", "n", "s", "a", "c", "t", "i", "o", "n", "s", ",", " ", "m",
    "a", "k", "e", " ", "s", "u", "r", "e", " ", "a", "l", "l", " ", "q", "u",
    "e", "r", "i", "e", "s", " ", "u", "s", "e", " ", "t", "h", "e", " ", "t",
    "r", "a", "n", "s", "a", "c", "t", "i", "o", "n", " ", "c", "o", "n", "t",
    "e", "x", "t", " ", "(", "t", "r", "x", ")", " ", "i", "n", "s", "t", "e",
    "a", "d", " ", "o", "f", " ", "t", "h", "e", " ", "m", "a", "i", "n", " ",
    "k", "n", "e", "x", " ", "i", "n", "s", "t", "a", "n", "c", "e", ".",
    "\n", "E", "x", "a", "m", "p", "l", "e", ":", " ", "U", "s", "e", " ",
    Backtick, "t", "r", "x", "(", "'", "t", "a", "b", "l", "e", "'", ")", ".", "s",
    "e", "l", "e", "c", "t", "(", ")", Backtick, " ", "i", "n", "s", "t", "e", "a",
    "d", " ", "o", "f", " ", Backtick, "k", "n", "e", "x", "(", "'", "t", "a", "b",
    "l", "e", "'", ")", ".", "s", "e", "l", "e", "c", "t", "(", ")", Backtick, " ",
    "w", "i", "t", "h", "i", "n", " ", "t", "r", "a", "n", "s", "a", "c", "t",
    "i", "o", "n", "s", ".", "\n", "F", "o", "r", " ", "O", "R", "M", "s",
    " ", "l", "i", "k", "e", " ", "B", "o", "o", "k", "s", "h", "e", "l", "f",
    ",", " ", "e", "n", "s", "u", "r", "e", " ", "m", "o", "d", "e", "l", "s",
    " ", "a", "r", "e", " ", "p", "r", "o", "p", "e", "r", "l", "y", " ", "c",
    "o", "n", "f", "i", "g", "u", "r", "e", "d", " ", "t", "o", " ", "u", "s",
    "e", " ", "t", "h", "e", " ", "t", "r", "a", "n", "s", "a", "c", "t", "i",
    "o", "n", " ", "c", "o", "n", "t", "e", "x", "t", ".">>
TxtKnexTimeout ==
  <<"K", "n", "e", "x", ":", " ", "T", "i", "m", "e", "o", "u", "t", " ", "a",
    "c", "q", "u", "i", "r", "i", "n", "g", " ", "a", " ", "c", "o", "n", "n",
    "e", "c", "t", "i", "o", "n", ".", " ", "T", "h", "e", " ", "p", "o", "o",
    "l", " ", "i", "s", " ", "p", "r", "o", "b", "a", "b", "l", "y", " ", "f",
    "u", "l", "l", ".">>
TxtUnableToOpen ==
  <<"u", "n", "a", "b", "l", "e", " ", "t", "o", " ", "o", "p", "e", "n", " ",
    "d", "a", "t", "a", "b", "a", "s", "e", " ", "f", "i", "l", "e">>

\* the errors the inherited acquireConnection may reject with
AcquireErrors ==
  { [ref |-> ref, message |-> message, code |-> Undefined] :
      ref \in {"pool", "driver"},
      message \in { Str(TxtKnexTimeout), Str(TxtTimeoutAcquiring), Str(TxtUnableToOpen),
                    Str(TxtSqliteHint), Str(<<>>), Undefined } }

\* how the promise of the inherited acquireConnection may settle
InheritedAnswers ==
  {[state |-> "fulfilled", value |-> c] : c \in Connections}
    \cup {[state |-> "rejected", err |-> e] : e \in AcquireErrors}

\* a catch block that puts the hint on every error
HintedError_AlwaysHints(err) ==
  [err EXCEPT !.message = Str(ToText(@) \o TxtSqliteHint)]

\* the catch block of acquireConnection: the same error object, with the
\* hint appended to the message of a pool timeout
HintedError(err) ==
  IF Truthy(err.message) /\ Includes(err.message.v, TxtTimeoutAcquiring)
    THEN [err EXCEPT !.message = Str(@.v \o TxtSqliteHint)]
    ELSE err

InitAcquire ==
  /\ pc = "acquire"
  /\ config \in ConnectionSettings
  /\ connection = Null
  /\ queryParam = Undefined
  /\ queryObject = NoQuery
  /\ stmt = NoStatement
  /\ error = NoError
  /\ outcome = Pending
  /\ result = Undefined
  /\ stream = NoStream
  /\ trace = <<>>

\* acquireConnection() up to the await: super.acquireConnection() is
\* called and its promise settles
InheritedAcquireConnection ==
  /\ pc = "acquire"
  /\ \E answer \in InheritedAnswers :
       /\ trace' = Append(trace, [op |-> "super.acquireConnection"] @@ answer)
       /\ IF answer.state = "fulfilled"
            THEN connection' = answer.value /\ error' = error
            ELSE connection' = connection /\ error' = answer.err
       /\ pc' = "awaited:" \o answer.state
  /\ UNCHANGED <<config, queryParam, queryObject, stmt, outcome, result, stream>>

\* acquireConnection() after the await: the return, or the catch block
AcquireConnection ==
  /\ pc \in {"awaited:fulfilled", "awaited:rejected"}
  /\ IF pc = "awaited:fulfilled"
       THEN /\ outcome' = [state |-> "fulfilled", value |-> connection]
            /\ error' = error
       ELSE /\ error' = HintedError(error)
            /\ outcome' = [state |-> "rejected", err |-> error']
  /\ trace' = Append(trace, [op |-> "settle", state |-> outcome'.state])
  /\ pc' = "settled"
  /\ UNCHANGED <<config, connection, queryParam, queryObject, stmt, result, stream>>

NextAcquire ==
  \/ InheritedAcquireConnection
  \/ AcquireConnection

SpecAcquire == InitAcquire /\ [][NextAcquire]_vars

(***************************************************************************)
(* Properties.                                                             *)
(***************************************************************************)
\* positions of the trace
QueryErrorEvents ==
  {i \in DOMAIN trace : trace[i].op = "emit" /\ trace[i].event = "query-error"}
QuerySettlements == {i \in DOMAIN trace : trace[i].op = "_query"}
Settlements == {i \in DOMAIN trace : trace[i].op = "settle"}
DriverCallsOf(op) == {i \in DOMAIN trace : trace[i].op = op}

\* the runner took a query without output function through processResponse
Processed(methods) ==
  pc = "done" /\ queryObject.method \in methods /\ ~Truthy(queryObject.output)

\* C1: whenever client._query rejects inside executeQuery, executeQuery
\* rejects with the same error object, whose message is the SQL, ' - ' and
\* the message _query rejected with; the SQL has its bindings rendered in by
\* formatQuery unless config.compileSqlOnError is false, and is then the raw
\* queryObject.sql.
C1_RejectionDecorated ==
  \A i \in QuerySettlements :
    (pc = "rejected" /\ trace[i].state = "rejected") =>
      /\ outcome.state = "rejected"
      /\ outcome.err.ref = trace[i].err.ref
      /\ outcome.err.message =
           Str((IF config.compileSqlOnError = Bool(FALSE)
                  THEN queryObject.sql.v
                  ELSE formatQuery(queryObject.sql, queryObject.bindings))
               \o <<" ", "-", " ">> \o ToText(trace[i].err.message))

\* a driver error on a query with bindings, decorated with the raw SQL
C1_Witness ==
  /\ pc = "rejected"
  /\ stmt.throwsAt = "execute"
  /\ config.compileSqlOnError = Bool(FALSE)
  /\ Truthy(queryObject.bindings)
  /\ formatQuery(queryObject.sql, queryObject.bindings) # queryObject.sql.v
  /\ StartsWith(outcome.err.message.v, queryObject.sql.v \o <<" ", "-", " ">>)

\* C2: a failed execution emits exactly one 'query-error' event, with the
\* decorated error, before the promise of executeQuery rejects; a
\* successful one emits none and resolves with the value _query resolved with.
C2_QueryErrorOnFailureOnly ==
  /\ pc = "rejected" =>
       /\ Cardinality(QueryErrorEvents) = 1
       /\ \A e \in QueryErrorEvents :
            /\ trace[e].err = outcome.err
            /\ \A q \in QuerySettlements :
                 q < e /\ trace[e].err.message # trace[q].err.message
            /\ \E r \in Settlements : trace[r].state = "rejected"
            /\ \A r \in Settlements : e < r
  /\ pc # "rejected" => QueryErrorEvents = {}
  /\ pc \in {"resolved", "done"} =>
       /\ outcome.state = "fulfilled"
       /\ \E q \in QuerySettlements :
            trace[q].state = "fulfilled" /\ outcome.value = trace[q].value

\* a rejected execution whose trace holds the event and then the rejection
C2_Witness ==
  /\ pc = "rejected"
  /\ stmt.throwsAt = "prepare"
  /\ \E e \in QueryErrorEvents : \E r \in Settlements : e < r

\* C3: the payload of every 'query' and 'query-error' event carries the
\* connection's uid as __knexUid and its transaction id as __knexTxId.
C3_EventPayloadIds ==
  \A i \in DOMAIN trace :
    trace[i].op = "emit" =>
      /\ trace[i].payload.__knexUid = Get(connection, "__knexUid")
      /\ trace[i].payload.__knexTxId = Get(connection, "__knexTxId")

\* C4: insert, update and del with a RETURNING column list return the
\* rowset the statement produced.
C4_ReturningGivesRowset ==
  (Processed({"insert", "update", "del"}) /\ Truthy(queryObject.returning)) =>
    result = Arr(stmt.rows)

\* C5: an insert without RETURNING returns the one-element list of the
\* lastInsertRowid statement.run reported.
C5_InsertGivesLastInsertRowid ==
  (Processed({"insert"}) /\ ~Truthy(queryObject.returning)) =>
    /\ result = Arr(<<stmt.lastInsertRowid>>)
    /\ Cardinality(DriverCallsOf("run")) = 1

\* an insert whose statement reported a lastInsertRowid other than its changes
C5_Witness ==
  /\ Processed({"insert"})
  /\ ~Truthy(queryObject.returning)
  /\ stmt.lastInsertRowid = Num(5)
  /\ result = Arr(<<Num(5)>>)

\* C6: an update or del without RETURNING returns the change count
\* statement.run reported, and the number 0 when it reported none.
C6_UpdateDelGiveChanges ==
  (Processed({"update", "del"}) /\ ~Truthy(queryObject.returning)) =>
    /\ result.t = "number"
    /\ stmt.changes.t = "number" => result = stmt.changes
    /\ stmt.changes.t # "number" => result = Num(0)

\* a del whose statement reported no count, and an answer of 0
C6_Witness ==
  /\ Processed({"del"})
  /\ ~Truthy(queryObject.returning)
  /\ stmt.changes = Undefined
  /\ result = Num(0)

\* C7: method 'first' fetches with statement.get, never statement.all, and
\* returns the first row of the statement, or undefined when it yields none.
C7_FirstGetsOneRow ==
  Processed({"first"}) =>
    /\ Cardinality(DriverCallsOf("get")) = 1
    /\ DriverCallsOf("all") = {}
    /\ DriverCallsOf("run") = {}
    /\ result = (IF stmt.rows = <<>> THEN Undefined ELSE stmt.rows[1])

\* a first on a statement that yields no row
C7_Witness ==
  /\ Processed({"first"})
  /\ stmt.rows = <<>>
  /\ stmt.throwsAt = "none"
  /\ result = Undefined

\* C8: method 'pluck' with column c returns row[c] for each row of the
\* response, in the same number and order, and the empty list when the
\* response is absent.
C8_PluckProjects ==
  Processed({"pluck"}) =>
    /\ IsArray(queryObject.response) =>
         /\ IsArray(result)
         /\ Len(result.v) = Len(queryObject.response.v)
         /\ \A i \in DOMAIN result.v :
              result.v[i] = Get(queryObject.response.v[i], queryObject.pluck)
    /\ queryObject.response \in {Undefined, Null} => result = Arr(<<>>)

\* a pluck over two different rows, one of them without the column
C8_Witness ==
  /\ Processed({"pluck"})
  /\ queryObject.pluck = "name"
  /\ queryObject.response = Arr(<<RowB, RowA>>)
  /\ result = Arr(<<Undefined, Str(<<"a">>)>>)

\* C9: a raw query, whatever its SQL, gives an array: the rows when the
\* statement yields rows, the empty array when it yields none.
C9_RawGivesArray ==
  Processed({"raw"}) => result = Arr(stmt.rows)

\* C10: for method 'raw' processResponse returns the stored response as it
\* is, and the empty array when the response is null or undefined.
C10_RawReturnsResponse ==
  Processed({"raw"}) =>
    IF queryObject.response \in {Undefined, Null}
      THEN result = Arr(<<>>)
      ELSE result = queryObject.response

\* a raw query object whose response is null
C10_Witness ==
  /\ Processed({"raw"})
  /\ queryObject.response = Null
  /\ result = Arr(<<>>)

\* C11: after destroyRawConnection resolves, the driver's close has been
\* called on the connection and the handle is closed.
C11_DestroyClosesHandle ==
  pc = "destroyed" =>
    /\ \E i \in DOMAIN trace : trace[i].op = "close"
    /\ connection.v.open = Bool(FALSE)

\* C12: every connection acquireRawConnection resolves with has foreign
\* keys disabled, whether the journal_mode pragma before it succeeded or threw.
C12_ForeignKeysDisabled ==
  pc = "acquired" => connection.v.foreign_keys = Bool(FALSE)

\* the calls of stream.write in the trace, in order
StreamWrites == SelectSeq(trace, LAMBDA e : e.op = "write")

\* the query of _stream succeeded and the loop over the rows has run
StreamedRows ==
  /\ pc \in {"stream:end", "stream:returned"}
  /\ \E i \in DOMAIN trace : trace[i].op = "_query" /\ trace[i].state = "fulfilled"

\* C13: when the query of _stream succeeds, every row of the response is
\* written exactly once and in response order, every write comes before
\* stream.end(), stream.end() is called exactly once, and the promise
\* resolves only after the stream emitted 'end'.
C13_StreamWritesThenEnds ==
  /\ StreamedRows =>
       /\ [i \in DOMAIN StreamWrites |-> StreamWrites[i].chunk]
            = (IF IsArray(queryObject.response) THEN queryObject.response.v ELSE <<>>)
       /\ \A i, j \in DOMAIN trace :
            trace[i].op = "write" /\ trace[j].op = "end" => i < j
       /\ Len(SelectSeq(trace, LAMBDA e : e.op = "end"))
            = (IF pc = "stream:returned" THEN 1 ELSE 0)
       /\ \A j \in DOMAIN trace :
            trace[j].op = "settle" =>
              /\ trace[j].state = "fulfilled"
              /\ j > 1
              /\ trace[j - 1] = [op |-> "emit", event |-> "end"]
       /\ stream.endEmitted => outcome.state = "fulfilled"
  /\ pc \in {"stream:rows", "stream:catch"} => StreamWrites = <<>> /\ outcome = Pending

C13_Witness ==
  /\ StreamedRows
  /\ Len(StreamWrites) = 2
  /\ StreamWrites[1].chunk # StreamWrites[2].chunk
  /\ outcome.state = "fulfilled"

\* C14: no row is forwarded to the sink while it is not writable, that is
\* after a write returned false and before 'drain'.
C14_NoWriteWhileNotWritable ==
  \A i \in DOMAIN trace : trace[i].op = "write" => ~trace[i].needDrain

\* the positions of the placeholders of sql no backslash stands in front of
UnescapedAt(sql) ==
  {i \in DOMAIN sql : sql[i] = "?" /\ (i = 1 \/ sql[i - 1] # "\\")}

\* what position i of sql contributes to the text formatQuery returns
FormattedPiece(sql, list, i) ==
  LET rank == Cardinality({j \in UnescapedAt(sql) : j <= i})
  IN CASE sql[i] = "\\" /\ i < Len(sql) /\ sql[i + 1] = "?" -> <<>>
       [] sql[i] = "?" /\ i \notin UnescapedAt(sql) -> <<"?">>
       [] sql[i] = "?" /\ i \in UnescapedAt(sql) ->
            (IF rank <= Len(list) THEN _escapeBinding(list[rank]) ELSE <<"?">>)
       [] OTHER -> <<sql[i]>>

RECURSIVE Flatten(_)
Flatten(pieces) ==
  IF pieces = <<>> THEN <<>> ELSE Head(pieces) \o Flatten(Tail(pieces))

\* the bindings of the query as a list
BindingsList ==
  IF IsArray(queryObject.bindings) THEN queryObject.bindings.v ELSE <<>>

\* C15: formatQuery replaces the i-th unescaped placeholder by the escaped
\* i-th binding as long as bindings are left, leaves every later unescaped
\* placeholder in place, and turns every escaped placeholder into a literal
\* one that consumes no binding.
C15_FormatQueryScan ==
  pc = "formatted" =>
    result = Str(Flatten([i \in DOMAIN queryObject.sql.v |->
                            FormattedPiece(queryObject.sql.v, BindingsList, i)]))

C15_Witness ==
  /\ pc = "formatted"
  /\ queryObject.sql.v = <<"?", "\\", "?", "?">>
  /\ Len(BindingsList) = 3
  /\ result = Str(<<"'", "a", "'", "'", "'", "?", "7">>)

\* C16: _formatBindings keeps length and order, turns every boolean into 1
\* or 0 and every Date into its epoch milliseconds, passes every other
\* value through, and answers a missing list with the empty list.
C16_FormatBindings ==
  pc = "bound" =>
    IF queryObject.bindings \in {Undefined, Null}
      THEN result = Arr(<<>>)
      ELSE /\ Len(result.v) = Len(queryObject.bindings.v)
           /\ \A i \in DOMAIN queryObject.bindings.v :
                LET binding == queryObject.bindings.v[i]
                IN CASE binding.t = "boolean" ->
                          result.v[i] = Num(IF binding.v THEN 1 ELSE 0)
                     [] binding.t = "date" -> result.v[i] = Num(binding.v)
                     [] OTHER -> result.v[i] = binding

C16_Witness ==
  /\ pc = "bound"
  /\ queryObject.bindings = Arr(<<Bool(FALSE), DateOf(0), Undefined, Str(<<"a">>)>>)
  /\ result = Arr(<<Num(0), Num(0), Undefined, Str(<<"a">>)>>)

\* the positions of the trace where a statement is prepared or executed
DriverSteps ==
  {i \in DOMAIN trace : trace[i].op \in {"prepare", "get", "all", "run"}}

\* the position of the trace where task t called _query
CalledAt(t) == CHOOSE i \in DOMAIN trace : trace[i].op = "call" /\ trace[i].task = t

\* C17: on one connection the statements reach the driver in the order the
\* calls of _query were made, and the prepare and execute steps of one call
\* are not interleaved with those of another call.
C17_SerializedInSubmissionOrder ==
  /\ \A i, j \in DriverSteps :
       (i < j /\ trace[i].task # trace[j].task) =>
         CalledAt(trace[i].task) < CalledAt(trace[j].task)
  /\ \A i, j \in DriverSteps :
       (i < j /\ trace[i].task = trace[j].task) =>
         \A k \in DriverSteps : (i < k /\ k < j) => trace[k].task = trace[i].task

C17_Witness ==
  /\ \A t \in Tasks : pc[t] = "settled" /\ outcome[t].state = "fulfilled"
  /\ CalledAt(2) < CalledAt(1)
  /\ \E i \in DriverSteps : trace[i].task = 1 /\ trace[i].op = "get"
  /\ \E i \in DriverSteps : trace[i].task = 2 /\ trace[i].op = "run"

\* C18: one invocation of executeQuery calls client._query exactly once,
\* whether it succeeds or fails, never tries again after a failure, and the
\* call prepares and executes its statement at most once.
C18_QueryCalledOnce ==
  /\ Cardinality(QuerySettlements) = (IF pc \in {"start", "enriched"} THEN 0 ELSE 1)
  /\ Cardinality(DriverCallsOf("prepare")) <= 1
  /\ Cardinality(DriverCallsOf("get") \cup DriverCallsOf("all") \cup DriverCallsOf("run")) <= 1

C18_Witness ==
  /\ pc = "rejected"
  /\ stmt.throwsAt = "execute"
  /\ Cardinality(QuerySettlements) = 1
  /\ Cardinality(DriverCallsOf("prepare")) = 1
  /\ Cardinality(DriverCallsOf("all")) = 1

\* the positions of the trace where the client emitted 'query'
QueryEvents ==
  {i \in DOMAIN trace : trace[i].op = "emit" /\ trace[i].event = "query"}

RECURSIVE ReplaceAll(_, _, _)
ReplaceAll(s, sub, rep) ==
  IF ~Includes(s, sub)
    THEN s
    ELSE LET i == IndexOf(s, sub)
         IN SubSeq(s, 1, i - 1) \o rep
              \o ReplaceAll(SubSeq(s, i + Len(sub), Len(s)), sub, rep)

\* the message of a driver error in the sqlite3 format
Sqlite3Message(message) ==
  ReplaceAll(
    IF Includes(message, TxtConstraintFailed) /\ ~Includes(message, TxtSqliteConstraintColon)
      THEN TxtSqliteConstraintColon \o <<" ">> \o message
      ELSE message,
    TxtErrSqliteError, TxtSqliteError)

\* C20: an error the driver throws while _query prepares or executes the
\* statement is rethrown as the same object, with the prefix
\* 'SQLITE_CONSTRAINT: ' exactly when the message contains 'constraint
\* failed' and not yet 'SQLITE_CONSTRAINT:', with 'ERR_SQLITE_ERROR' in the
\* message rewritten to 'SQLITE_ERROR' and the code 'ERR_SQLITE_ERROR'
\* turned into 'SQLITE_ERROR'; no driver error is swallowed.
C20_DriverErrorNormalized ==
  \A i \in QuerySettlements :
    (stmt.throwsAt # "none" /\ DriverCallsOf("prepare") # {}) =>
      /\ trace[i].state = "rejected"
      /\ trace[i].err.ref = stmt.err.ref
      /\ trace[i].err.message =
           (IF stmt.err.message.t = "string"
              THEN Str(Sqlite3Message(stmt.err.message.v))
              ELSE stmt.err.message)
      /\ trace[i].err.code =
           (IF stmt.err.code = Str(TxtErrSqliteError)
              THEN Str(TxtSqliteError)
              ELSE stmt.err.code)

\* C21: a compiled query is immutable: after enrichQueryObject, executeQuery
\* and _query the query object the caller passed in has the sql, bindings
\* and every other field it had before.
C21_CompiledQueryUnchanged ==
  (pc \in {"then", "catch", "resolved", "rejected", "done"} /\ ~isString(queryParam)) =>
    queryObject = queryParam

\* the positions of the trace where a prepared statement is executed
ExecuteCalls == DriverCallsOf("get") \cup DriverCallsOf("all") \cup DriverCallsOf("run")

\* the bindings of the query as it was before the call of _query
GivenBindings == IF IsArray(queryParam.bindings) THEN queryParam.bindings.v ELSE <<>>

\* C22: every statement _query executes is prepared from obj.sql exactly as
\* given, and the bindings are handed over as the parameters of the
\* statement, in their order; no binding value is spliced into the text.
C22_PreparedWithSeparateBindings ==
  /\ \A i \in DriverCallsOf("prepare") : trace[i].sql = queryParam.sql.v
  /\ \A i \in ExecuteCalls :
       /\ Len(trace[i].bindings) = Len(GivenBindings)
       /\ \A k \in DOMAIN GivenBindings :
            trace[i].bindings[k] =
              (CASE GivenBindings[k].t = "boolean" -> Num(IF GivenBindings[k].v THEN 1 ELSE 0)
                 [] GivenBindings[k].t = "date" -> Num(GivenBindings[k].v)
                 [] OTHER -> GivenBindings[k])

C22_Witness ==
  /\ pc = "returned"
  /\ outcome.state = "fulfilled"
  /\ Len(GivenBindings) = 3
  /\ \E i \in DriverCallsOf("prepare") :
       trace[i].sql = <<"v", "a", "l", "u", "e", "s", "(", "?", ",", "?", ")">>
  /\ \E i \in DriverCallsOf("run") :
       trace[i].bindings = <<Str(<<"a", "'">>), Num(7), Num(3)>>

\* the statement method the description of _query names for a query
NamedStatementMethod(obj) ==
  LET text == ToLowerCase(Trim(obj.sql.v))
      selectOrPragma == StartsWith(text, TxtSelect) \/ StartsWith(text, TxtPragma)
  IN CASE obj.method = "first" -> "get"
       [] obj.method \in {"select", "pluck", "columnInfo"} -> "all"
       [] obj.method \in {"raw", NoMethod} /\ selectOrPragma -> "all"
       [] obj.method \in {"insert", "update"} /\ Truthy(obj.returning) -> "all"
       [] OTHER -> "run"

\* the call of _query went past the checks of obj.sql and connection
PassedChecks == pc = "returned" /\ Truthy(queryParam.sql) /\ Truthy(connection)

\* C25 as stated: every _query call that passes its checks calls
\* connection.prepare once and exactly one of get, all and run once, the one
\* the method, the SQL text and obj.returning select.
C25_OnePrepareOneExecute ==
  PassedChecks =>
    /\ Cardinality(DriverCallsOf("prepare")) = 1
    /\ Cardinality(ExecuteCalls) = 1
    /\ \A i \in ExecuteCalls : trace[i].op = NamedStatementMethod(queryParam)

\* C25, amended: the statement method is called once when prepare returned
\* a statement, and not at all when prepare threw.
C25_OnePrepareOneExecuteIfPrepared ==
  PassedChecks =>
    /\ Cardinality(DriverCallsOf("prepare")) = 1
    /\ Cardinality(ExecuteCalls) = (IF stmt.throwsAt = "prepare" THEN 0 ELSE 1)
    /\ \A i \in ExecuteCalls : trace[i].op = NamedStatementMethod(queryParam)

C25_Witness ==
  /\ PassedChecks
  /\ queryParam.method = "update"
  /\ Truthy(queryParam.returning)
  /\ stmt.throwsAt = "execute"
  /\ \E i \in ExecuteCalls : trace[i].op = "all"

\* the positions of the trace where acquireRawConnection opened a database
Openings == DriverCallsOf("new DatabaseSync")

\* the keys of connectionSettings.options
UserOptionKeys == IF Truthy(config.options) THEN DOMAIN config.options.v ELSE {}

\* C23 as stated: the database is opened with double-quoted string literals
\* enabled for every configuration, and every key of
\* connectionSettings.options reaches the driver with the user's value.
C23_DoubleQuotedLiteralsAlways ==
  \A i \in Openings :
    /\ trace[i].options.v.enableDoubleQuotedStringLiterals = Bool(TRUE)
    /\ \A k \in UserOptionKeys : trace[i].options.v[k] = config.options.v[k]

\* C23, amended: double-quoted string literals are enabled unless
\* connectionSettings.options sets enableDoubleQuotedStringLiterals itself,
\* and every key of connectionSettings.options reaches the driver with the
\* user's value.
C23_DoubleQuotedLiteralsByDefault ==
  \A i \in Openings :
    /\ "enableDoubleQuotedStringLiterals" \notin UserOptionKeys =>
         trace[i].options.v.enableDoubleQuotedStringLiterals = Bool(TRUE)
    /\ \A k \in UserOptionKeys : trace[i].options.v[k] = config.options.v[k]
    /\ DOMAIN trace[i].options.v = UserOptionKeys \cup {"enableDoubleQuotedStringLiterals"}

C23_Witness ==
  /\ pc = "acquired"
  /\ UserOptionKeys = {"readOnly", "timeout"}
  /\ \E i \in Openings :
       trace[i].options.v =
         [enableDoubleQuotedStringLiterals |-> Bool(TRUE), readOnly |-> Bool(TRUE),
          timeout |-> Num(5)]

\* how the inherited acquireConnection settled
Inherited == trace[CHOOSE i \in DOMAIN trace : trace[i].op = "super.acquireConnection"]

\* C24: acquireConnection rejects with the error object the inherited
\* method rejected with, the hint appended to its message exactly when the
\* message contains 'Timeout acquiring a connection' and the message left
\* alone otherwise, and on success returns the inherited connection.
C24_AcquireKeepsFailure ==
  pc = "settled" =>
    IF Inherited.state = "fulfilled"
      THEN outcome = [state |-> "fulfilled", value |-> Inherited.value]
      ELSE /\ outcome.state = "rejected"
           /\ outcome.err.ref = Inherited.err.ref
           /\ outcome.err.code = Inherited.err.code
           /\ outcome.err.message =
                (IF Inherited.err.message.t = "string"
                      /\ Includes(Inherited.err.message.v, TxtTimeoutAcquiring)
                   THEN Str(Inherited.err.message.v \o TxtSqliteHint)
                   ELSE Inherited.err.message)

C24_Witness ==
  /\ pc = "settled"
  /\ Inherited.state = "rejected"
  /\ Inherited.err.message = Str(TxtKnexTimeout)
  /\ outcome.err.message = Str(TxtKnexTimeout \o TxtSqliteHint)
  /\ outcome.err.ref = "pool"

\* the query of _stream failed: the positions of the trace that say so
StreamQueryFailures ==
  {i \in DOMAIN trace : trace[i].op = "_query" /\ trace[i].state = "rejected"}

\* the positions of the trace where the stream got an 'error' event
StreamErrorEvents ==
  {i \in DOMAIN trace : trace[i].op = "emit" /\ trace[i].event = "error"}

\* C26: when the query of _stream fails, no row is written, the stream
\* gets one 'error' event with the error of the query, stream.end() is
\* called once and after that event, and the promise rejects with the
\* error and is not resolved afterwards.
C26_StreamFailure ==
  \A q \in StreamQueryFailures :
    /\ StreamWrites = <<>>
    /\ pc = "stream:catch" => StreamErrorEvents = {} /\ outcome = Pending
    /\ pc \in {"stream:end", "stream:returned"} =>
         /\ Cardinality(StreamErrorEvents) = 1
         /\ \A e \in StreamErrorEvents : e > q /\ trace[e].err = trace[q].err
         /\ outcome = [state |-> "rejected", err |-> trace[q].err]
         /\ \A j \in DOMAIN trace : trace[j].op = "settle" => trace[j].state = "rejected"
    /\ Cardinality(DriverCallsOf("end")) = (IF pc = "stream:returned" THEN 1 ELSE 0)
    /\ \A j \in DriverCallsOf("end") : \A e \in StreamErrorEvents : e < j

C26_Witness ==
  /\ StreamQueryFailures # {}
  /\ pc = "stream:returned"
  /\ stream.endEmitted
  /\ stmt.throwsAt = "execute"
  /\ outcome.state = "rejected"
  /\ outcome.err.message = Str(TxtSqliteConstraintColon \o <<" ">> \o TxtConstraintFailed)

\* C27: _query rejects with 'The query is empty' when obj.sql is empty or
\* missing and with 'No connection provided' when the sql is there and the
\* connection is missing; neither call prepares or executes a statement,
\* and the check of the sql comes first.
C27_PreconditionChecks ==
  pc = "returned" =>
    /\ ~Truthy(queryParam.sql) =>
         /\ outcome.state = "rejected"
         /\ outcome.err.message = Str(TxtQueryIsEmpty)
         /\ DriverCallsOf("prepare") \cup ExecuteCalls = {}
    /\ (Truthy(queryParam.sql) /\ ~Truthy(connection)) =>
         /\ outcome.state = "rejected"
         /\ outcome.err.message = Str(TxtNoConnection)
         /\ DriverCallsOf("prepare") \cup ExecuteCalls = {}

C27_Witness ==
  /\ pc = "returned"
  /\ queryParam.sql = Str(<<>>)
  /\ connection = Undefined
  /\ outcome.state = "rejected"
  /\ outcome.err.message = Str(TxtQueryIsEmpty)
  /\ trace = <<[op |-> "_query", state |-> "rejected", err |-> outcome.err,
               value |-> queryParam]>>

\* C28: _query assigns obj.response and obj.context on success only: when
\* the driver throws, both keep the values they had before the call; when
\* the call succeeds, the promise resolves with the same obj, both fields
\* set from this execution.
C28_ResponseOnSuccessOnly ==
  pc = "returned" =>
    /\ outcome.state = "rejected" => queryObject = queryParam
    /\ outcome.state = "fulfilled" =>
         /\ outcome.value = queryObject
         /\ queryObject = [queryParam EXCEPT !.response = queryObject.response,
                                             !.context = queryObject.context]
         /\ queryObject.response \in
              {Arr(stmt.rows),
               Arr(IF stmt.rows = <<>> THEN <<>> ELSE <<stmt.rows[1]>>),
               Obj([lastInsertRowid |-> stmt.lastInsertRowid, changes |-> stmt.changes])}
         /\ queryObject.context.t = "object"

C28_Witness ==
  /\ pc = "returned"
  /\ stmt.throwsAt = "execute"
  /\ queryParam.response = Arr(<<RowA>>)
  /\ queryObject.response = Arr(<<RowA>>)
  /\ queryObject.context = Obj([lastID |-> Num(1), changes |-> Num(1)])

\* what the output functions of the model return for a response
OutputOf(output, response) ==
  CASE output = Fn("runner") -> Runner
    [] output = Fn("hasRows") /\ response \in {Undefined, Null} -> TypeError
    [] output = Fn("hasRows") /\ IsArray(response) -> Bool(response.v # <<>>)
    [] OTHER -> Bool(FALSE)

\* C29: when obj.output is set, processResponse returns obj.output applied
\* to the response with the runner as receiver, whatever obj.method is, and
\* the shaping by method is not applied.
C29_OutputTakesOver ==
  (pc = "done" /\ Truthy(queryObject.output)) =>
    result = OutputOf(queryObject.output, queryObject.response)

C29_Witness ==
  /\ pc = "done"
  /\ queryObject.method = "first"
  /\ queryObject.output = Fn("hasRows")
  /\ queryObject.response = Arr(<<RowA, RowB>>)
  /\ result = Bool(TRUE)

\* C30: the normalization of a driver error in _query is complete and
\* idempotent: the message it leaves holds no 'ERR_SQLITE_ERROR', and
\* normalizing the normalized error again changes neither message nor code.
C30_NormalizationIdempotent ==
  (pc = "returned" /\ stmt.throwsAt # "none" /\ DriverCallsOf("prepare") # {}) =>
    /\ outcome.err.message.t = "string" =>
         ~Includes(outcome.err.message.v, TxtErrSqliteError)
    /\ NormalizeError(outcome.err) = outcome.err

=============================================================================
